---- MODULE Spec2Model ----
(***************************************************************************)
(* Capacitated facility location: Loc.haversine_distance (util.py) and     *)
(* Model.__init__ / Model.solve / Model.get_solution                      *)
(* (facility_location_model.py).                                           *)
(*                                                                         *)
(* Numbers.  Every variable value (a flow x[i][j], an open value y[i], a   *)
(* demand, a capacity) is an integer count of eps = 0.0001, so eps is 1    *)
(* and the real number 1.0 is One = 10000.  Every cost (objective,         *)
(* fixed_costs, variable_costs) is the real cost multiplied by One, so     *)
(* that cost * value stays an integer.  Distances are whole kilometres.    *)
(***************************************************************************)
EXTENDS Integers, FiniteSets, Sequences, TLC

\* ------------------------------------------------------------------ bounds
MaxDemand == 2
MaxCapacity == 2
MaxFixedCost == 1
MaxShippingCost == 1
OtherTimeout == 1

\* --------------------------------------------------------------- constants
Eps == 1
One == 10000 * Eps
EarthRadius == 6378
DefaultTimeout == 120
LpStatusOptimal == 1
LpStatusNotSolved == 0
LpStatusInfeasible == -1
\* the status codes pulp's LpProblem.status can hold after a backend run:
\* Undefined -3, Unbounded -2, Infeasible -1, NotSolved 0, Optimal 1
LpStatusValues == -3 .. 1

NoValue == -1        \* varValue None
NoLimit == -1        \* the backend runs without a time limit
NoTimeout == -1      \* no call of solve is in progress

s_ids == {0, 1}
c_ids == {0, 1}
Pairs == s_ids \X c_ids

\* sums over the sites, over the customers and over the pairs
SumSites(f) == f[0] + f[1]
SumCustomers(f) == f[0] + f[1]
SumPairs(f) == SumSites([i \in s_ids |-> SumCustomers([j \in c_ids |-> f[<<i, j>>]])])

\* ----------------------------------------------------- Loc (util.py 15-47)
\* A Loc object has an identity (id) besides its fields; lat and lon are
\* counted in quarter turns (90 degrees), where the trigonometry is exact.
Lats == -1 .. 1
Lons == -2 .. 2

Sin90(k) == LET m == k % 4 IN IF m = 1 THEN 1 ELSE IF m = 3 THEN -1 ELSE 0
Cos90(k) == LET m == k % 4 IN IF m = 0 THEN 1 ELSE IF m = 2 THEN -1 ELSE 0

\* Loc defines no __eq__: Python's == on two Loc objects is object identity.
LocEq(a, b) == a.id = b.id

\* the cosine-law expression, lines 30-32: its exact value
CosLaw(a, b) ==
  Sin90(a.lat) * Sin90(b.lat) + Cos90(a.lat) * Cos90(b.lat) * Cos90(b.lon - a.lon)

\* The float result of lines 30-32 is the exact value off by r ulps, r in
\* Roundings.  Lines 35-38 clamp an overshoot beyond 1.0 or -1.0.
Roundings == {-1, 0, 1}
Clamp(v) ==
  IF v.whole = 1 /\ v.ulp > 0 THEN [whole |-> 1, ulp |-> 0]
  ELSE IF v.whole = -1 /\ v.ulp < 0 THEN [whole |-> -1, ulp |-> 0]
  ELSE v

\* math.acos in thousandths of a radian; residue 1 marks a result that is
\* not 0.0 although it is below one thousandth (acos of 1.0 minus an ulp).
AcosMilli(v) == IF v.whole = 1 THEN 0 ELSE IF v.whole = 0 THEN 1571 ELSE 3142
AcosResidue(v) == IF v.whole = 1 /\ v.ulp < 0 THEN 1 ELSE 0

haversine_distance(self, other, r) ==
  IF LocEq(self, other)
  THEN [path |-> "eq", km |-> 0, residue |-> 0]
  ELSE LET v == Clamp([whole |-> CosLaw(self, other), ulp |-> r])
       IN IF v.whole < -1 \/ v.whole > 1
          THEN [path |-> "raise", km |-> 0, residue |-> 0]
          ELSE [path |-> "acos",
                km |-> (EarthRadius * AcosMilli(v)) \div 1000,
                residue |-> AcosResidue(v)]

\* ------------------------------------------------------------------- state
VARIABLES
  instance,          \* Instance: demand, capacity, fixed_cost, shipping_cost, locs
  total_demand,      \* Model.total_demand
  total_capacity,    \* Model.total_capacity
  shipping_costs,    \* Model.shipping_costs[i, j]
  status,            \* LpProblem.status
  yValue,            \* y[i].varValue
  xValue,            \* x[i][j].varValue
  pc,                \* "built", "backend", "returned", "extracted", "raised"
  timeout_sec,       \* the argument of the call of solve in progress
  backendCalls,      \* how often super().solve() was entered
  backendTimeLimit,  \* the time limit handed to the backend
  ret,               \* what solve returned: status and message
  solution,          \* what get_solution returned
  volume,            \* the 'volume' columns get_solution adds to the instance
  dself, dother, dres  \* a call of haversine_distance: receiver, argument, result

vars == <<instance, total_demand, total_capacity, shipping_costs, status,
          yValue, xValue, pc, timeout_sec, backendCalls, backendTimeLimit,
          ret, solution, volume, dself, dother, dres>>

modelVars == <<instance, total_demand, total_capacity, shipping_costs, status,
               yValue, xValue, pc, timeout_sec, backendCalls, backendTimeLimit,
               ret, solution, volume>>
distVars == <<dself, dother, dres>>

NoRet == [status |-> LpStatusNotSolved, text |-> "", args |-> <<>>]
NoSolution == [made |-> FALSE]
NoVolume == [made |-> FALSE]
NoLoc == [id |-> "none", lat |-> 0, lon |-> 0]
NoDist == [path |-> "none", km |-> 0, residue |-> 0]

\* --------------------------------------------- Instance (lines 13-66)
\* Instance.generate builds one Loc per row (lines 35, 52): every site and
\* every customer has a Loc object of its own.  All lie on the equator, site
\* 0 at longitude 0, the others there or a quarter turn east of it, and
\* customer 0 not east of customer 1.  The shipping cost is positive: a
\* shipping cost of 0 costs what an instance with all locations equal costs.
SiteLoc(i, lon) == [id |-> <<"site", i>>, lat |-> 0, lon |-> lon]
CustLoc(j, lon) == [id |-> <<"customer", j>>, lat |-> 0, lon |-> lon]

Instances ==
  { [demand |-> d, capacity |-> c, fixed_cost |-> f, shipping_cost |-> MaxShippingCost,
     site_loc |-> [i \in s_ids |-> SiteLoc(i, IF i = 0 THEN 0 ELSE sl)],
     cust_loc |-> [j \in c_ids |-> CustLoc(j, cl[j])]] :
       d \in [c_ids -> 0 .. MaxDemand], c \in [s_ids -> 0 .. MaxCapacity],
       f \in [s_ids -> {0, MaxFixedCost}],
       sl \in 0 .. 1, cl \in { l \in [c_ids -> 0 .. 1] : l[0] <= l[1] } }

\* --------------------------------------------- Model.__init__ (86-124)
ShippingCosts(inst, r) ==
  [p \in Pairs |->
     inst.shipping_cost
       * haversine_distance(inst.site_loc[p[1]], inst.cust_loc[p[2]], r).km]

\* the objective, lines 111-114, on variable values yv, xv
Objective(yv, xv) ==
  SumSites([i \in s_ids |-> instance.fixed_cost[i] * yv[i]])
    + SumPairs([p \in Pairs |-> shipping_costs[p] * xv[p]])

\* the coefficient of y[i] in the capacity constraint, line 124
LinkCapTotalOnly(i) == total_demand
LinkCapLargestDemand(i) ==
  LET m == CHOOSE d \in { instance.demand[j] : j \in c_ids } :
             \A j \in c_ids : instance.demand[j] <= d
  IN IF instance.capacity[i] < m THEN instance.capacity[i] ELSE m
LinkCap(i) ==
  IF instance.capacity[i] < total_demand THEN instance.capacity[i] ELSE total_demand

RowSum(xv, i) == SumCustomers([j \in c_ids |-> xv[<<i, j>>]])
ColSum(xv, j) == SumSites([i \in s_ids |-> xv[<<i, j>>]])

\* demand constraints, lines 117-119
DemandOk(xv) == \A j \in c_ids : ColSum(xv, j) >= instance.demand[j]
\* capacity constraints, lines 122-124, with y[i] binary (Y[i] in {0, 1})
CapacityOk(Y, xv, cap) == \A i \in s_ids : RowSum(xv, i) <= cap[i] * Y[i]

\* the variables' domains, lines 98-103: y[i] binary, x[i][j] >= 0 (no flow
\* above the largest capacity can satisfy a capacity constraint)
LargestCapacity ==
  CHOOSE m \in { instance.capacity[i] : i \in s_ids } :
    \A i \in s_ids : instance.capacity[i] <= m
YDomain == [s_ids -> {0, 1}]
XDomain == [Pairs -> 0 .. LargestCapacity]

\* the solutions that satisfy every constraint, cap[i] being the coefficient
\* of y[i] in the capacity constraints
Feasible(cap) ==
  UNION { { [y |-> Y, x |-> xv] : Y \in { Z \in YDomain : CapacityOk(Z, xv, cap) } } :
          xv \in { w \in XDomain : DemandOk(w) } }

ExactCost(s) == Objective([i \in s_ids |-> s.y[i] * One], s.x)

\* the least cost over a set of solutions (-1 when the set is empty)
MinCost(F) ==
  LET costs == { ExactCost(s) : s \in F }
  IN IF costs = {} THEN -1 ELSE CHOOSE m \in costs : \A c \in costs : m <= c

Optimal(cap) ==
  LET F == Feasible(cap)
      m == MinCost(F)
  IN { s \in F : ExactCost(s) = m }

\* the MILP the program hands to the backend
LinkCaps == [i \in s_ids |-> LinkCap(i)]
OptimalSolutions == Optimal(LinkCaps)

\* A backend reports a binary variable within its integrality tolerance of
\* 0 or 1, not as the exact integer: varValue is the float read back.
ReportedY(Y) ==
  { yv \in [s_ids -> {0, Eps, One - Eps, One}] :
      \A i \in s_ids : IF Y[i] = 1 THEN yv[i] >= One - Eps ELSE yv[i] <= Eps }

NoValues == [y |-> [i \in s_ids |-> NoValue], x |-> [p \in Pairs |-> NoValue]]
ZeroValues == [y |-> [i \in s_ids |-> 0], x |-> [p \in Pairs |-> 0]]

\* What the variables hold after a termination term of the backend, opt being
\* the optimal solutions of the MILP.  Optimal: one of them.  NotSolved: the
\* incumbent the backend stopped with, if it had one.  Any termination but
\* Optimal: still None, or the 0 the solution reader starts every value at.
BackendValues(term, opt) ==
  IF term = LpStatusOptimal
  THEN UNION { { [y |-> yv, x |-> s.x] : yv \in ReportedY(s.y) } : s \in opt }
  ELSE {NoValues, ZeroValues}
         \cup IF term = LpStatusNotSolved
              THEN { [y |-> [i \in s_ids |-> s.y[i] * One], x |-> s.x] : s \in opt }
              ELSE {}

\* ---------------------------------------------------------------- Init
\* An Instance and the Model built from it (Model.__init__, lines 86-124).
Init ==
  /\ instance \in Instances
  /\ total_demand = SumCustomers([j \in c_ids |-> instance.demand[j]])
  /\ total_capacity = SumSites([i \in s_ids |-> instance.capacity[i]])
  /\ shipping_costs \in { ShippingCosts(instance, r) : r \in Roundings }
  /\ status = LpStatusNotSolved
  /\ yValue = NoValues.y
  /\ xValue = NoValues.x
  /\ pc = "built"
  /\ timeout_sec = NoTimeout
  /\ backendCalls = 0
  /\ backendTimeLimit = NoLimit
  /\ ret = NoRet
  /\ solution = NoSolution
  /\ volume = NoVolume
  /\ dself = NoLoc /\ dother = NoLoc /\ dres = NoDist

\* ------------------------------------------------- Model.solve (126-144)
Timeouts == {DefaultTimeout, OtherTimeout}

\* line 128
PreCheckSwapped(d, c) == c > d
PreCheckFails(d, c) == d > c

\* the limit super().solve() is called with, line 132: none
BackendLimit(t) == NoLimit

\* lines 134-144: the pair solve returns for LpProblem.status st
SolveReturn(st) ==
  IF st = LpStatusInfeasible
  THEN [status |-> st, text |-> "Model is infeasible", args |-> <<>>]
  ELSE IF st = LpStatusNotSolved
  THEN [status |-> st, text |-> "Model not solved to optimality", args |-> <<>>]
  ELSE [status |-> st, text |-> "Model optimal", args |-> <<>>]

\* solve up to its return (line 129) or up to the backend call (line 132)
Solve(t) ==
  /\ pc = "built"
  /\ IF PreCheckFails(total_demand, total_capacity)
     THEN /\ ret' = [status |-> LpStatusInfeasible,
                     text |-> "Total demand exceeds total capacity",
                     args |-> <<total_demand, total_capacity>>]
          /\ pc' = "returned"
          /\ UNCHANGED <<timeout_sec, backendCalls, backendTimeLimit>>
     ELSE /\ pc' = "backend"
          /\ timeout_sec' = t
          /\ backendCalls' = backendCalls + 1
          /\ backendTimeLimit' = BackendLimit(t)
          /\ ret' = ret
  /\ UNCHANGED <<instance, total_demand, total_capacity, shipping_costs, status,
                 yValue, xValue, solution, volume, distVars>>

\* the backend terminates and solve returns (lines 132-144)
BackendReturn ==
  /\ pc = "backend"
  /\ \E opt \in {OptimalSolutions} :
       \E term \in LpStatusValues :
         \E vals \in BackendValues(term, opt) :
           /\ status' = term
           /\ yValue' = vals.y
           /\ xValue' = vals.x
           /\ ret' = SolveReturn(term)
  /\ pc' = "returned"
  /\ timeout_sec' = NoTimeout
  /\ UNCHANGED <<instance, total_demand, total_capacity, shipping_costs,
                 backendCalls, backendTimeLimit, solution, volume, distVars>>

\* --------------------------------------------- Model.get_solution (146-173)
\* the filter "varValue > eps", lines 148 and 151
KeptAboveTwoEps(v) == v > 2 * Eps
Kept(v) == v > Eps

\* the value stored for a recorded site, line 148: the raw varValue
YRecordedAsOne(v) == One
YRecorded(v) == v

\* "None > eps" raises TypeError (line 148 for y, line 151 for x)
NeverRaises(yv, xv) == FALSE
ComparisonRaises(yv, xv) ==
  (\E i \in s_ids : yv[i] = NoValue) \/ (\E p \in Pairs : xv[p] = NoValue)

Yval(yv) == [i \in { k \in s_ids : Kept(yv[k]) } |-> YRecorded(yv[i])]
Xval(xv) == [p \in { q \in Pairs : Kept(xv[q]) } |-> xv[p]]

\* lines 154-157
Units(xs, p) == IF p \in DOMAIN xs THEN xs[p] ELSE 0
SiteVolume(xs, i) == SumCustomers([j \in c_ids |-> Units(xs, <<i, j>>)])
CustomerVolume(xs, j) == SumSites([i \in s_ids |-> Units(xs, <<i, j>>)])

\* lines 160-167: one row per recorded flow, with both endpoints' coordinates
Flows(xs) ==
  { [from |-> p[1], to |-> p[2], units |-> xs[p],
     from_lat |-> instance.site_loc[p[1]].lat, from_lon |-> instance.site_loc[p[1]].lon,
     to_lat |-> instance.cust_loc[p[2]].lat, to_lon |-> instance.cust_loc[p[2]].lon] :
       p \in DOMAIN xs }

\* line 169
TotalFixedCosts(ys) ==
  SumSites([i \in s_ids |-> IF i \in DOMAIN ys THEN instance.fixed_cost[i] * ys[i] ELSE 0])
\* line 170
TotalShippingCostsUnits(xs) == SumPairs([p \in Pairs |-> Units(xs, p)])
TotalShippingCosts(xs) ==
  SumPairs([p \in Pairs |-> shipping_costs[p] * Units(xs, p)])

\* Solution.secs (elapsed wall-clock seconds) is not modelled.
GetSolution ==
  /\ pc = "returned"
  /\ IF ComparisonRaises(yValue, xValue)
     THEN /\ pc' = "raised"
          /\ UNCHANGED <<solution, volume>>
     ELSE LET ys == Yval(yValue)
              xs == Xval(xValue)
          IN /\ volume' = [made |-> TRUE,
                           sites |-> [i \in s_ids |-> SiteVolume(xs, i)],
                           customers |-> [j \in c_ids |-> CustomerVolume(xs, j)]]
             /\ solution' = [made |-> TRUE,
                             status |-> status,
                             value |-> Objective(yValue, xValue),
                             xs |-> xs,
                             ys |-> ys,
                             flows |-> Flows(xs),
                             fixed_costs |-> TotalFixedCosts(ys),
                             variable_costs |-> TotalShippingCosts(xs)]
             /\ pc' = "extracted"
  /\ UNCHANGED <<instance, total_demand, total_capacity, shipping_costs, status,
                 yValue, xValue, timeout_sec, backendCalls, backendTimeLimit,
                 ret, distVars>>

Next ==
  \/ \E t \in Timeouts : Solve(t)
  \/ BackendReturn
  \/ GetSolution

Spec == Init /\ [][Next]_vars

\* ------------------------------------------------ haversine_distance alone
\* Two Loc objects p and q, which may be one and the same object, anywhere
\* on the quarter-turn grid.
LocObjects == { [id |-> n, lat |-> la, lon |-> lo] : n \in {"p", "q"}, la \in Lats, lo \in Lons }

DistInit ==
  /\ instance = CHOOSE inst \in Instances :
                  /\ \A j \in c_ids : inst.demand[j] = 0 /\ inst.cust_loc[j].lon = 0
                  /\ \A i \in s_ids : inst.capacity[i] = 0 /\ inst.fixed_cost[i] = 0
                                     /\ inst.site_loc[i].lon = 0
  /\ total_demand = 0
  /\ total_capacity = 0
  /\ shipping_costs = [p \in Pairs |-> 0]
  /\ status = LpStatusNotSolved
  /\ yValue = NoValues.y
  /\ xValue = NoValues.x
  /\ pc = "idle"
  /\ timeout_sec = NoTimeout
  /\ backendCalls = 0
  /\ backendTimeLimit = NoLimit
  /\ ret = NoRet
  /\ solution = NoSolution
  /\ volume = NoVolume
  /\ dself \in LocObjects
  /\ dother \in LocObjects
  /\ dself.id = dother.id => dself = dother
  /\ dres = NoDist

HaversineCall(r) ==
  /\ dres = NoDist
  /\ dres' = haversine_distance(dself, dother, r)
  /\ UNCHANGED <<modelVars, dself, dother>>

DistNext == \E r \in Roundings : HaversineCall(r)

SpecDist == DistInit /\ [][DistNext]_vars

\* ================================================================== claims
AfterSolve == pc \in {"returned", "extracted", "raised"}
AfterGetSolution == pc \in {"extracted", "raised"}
OptimalExtracted == pc = "extracted" /\ ret.status = LpStatusOptimal

\* the recorded flows into customer j / out of site i
RecordedInto(j) == SumSites([i \in s_ids |-> Units(solution.xs, <<i, j>>)])
RecordedFrom(i) == SumCustomers([j \in c_ids |-> Units(solution.xs, <<i, j>>)])
\* the positive flows into customer j that are not recorded
DroppedInto(j) ==
  { i \in s_ids : xValue[<<i, j>>] > 0 /\ <<i, j>> \notin DOMAIN solution.xs }
UnrecordedSites == s_ids \ DOMAIN solution.ys
UnrecordedPairs == Pairs \ DOMAIN solution.xs
\* two points with equal lat and equal lon
LocEqAsValue(a, b) == a.lat = b.lat /\ a.lon = b.lon
\* the coefficient of y[i] without the min(..., total_demand) cap
LinkCapUntightened(i) == instance.capacity[i]

\* C1: when total demand exceeds total capacity, solve returns Infeasible
\* with a message carrying both totals, and the backend is never entered.
C1_PreCheckShortCircuit ==
  (pc # "built" /\ total_demand > total_capacity) =>
     /\ AfterSolve
     /\ ret.status = LpStatusInfeasible
     /\ ret.args = <<total_demand, total_capacity>>
     /\ backendCalls = 0

C1_Witness ==
  /\ pc = "returned"
  /\ total_demand > total_capacity
  /\ ret.status = LpStatusInfeasible
  /\ backendCalls = 0

\* C2: whatever the backend reports, solve returns Optimal, Infeasible or
\* NotSolved; a termination that is neither optimal nor infeasible is
\* returned as NotSolved; the message says optimal only with status Optimal.
C2_ThreeWayStatus ==
  (AfterSolve /\ backendCalls > 0) =>
     /\ ret.status \in {LpStatusOptimal, LpStatusInfeasible, LpStatusNotSolved}
     /\ status \notin {LpStatusOptimal, LpStatusInfeasible} => ret.status = LpStatusNotSolved
     /\ ret.text = "Model optimal" => ret.status = LpStatusOptimal

\* C3: a call of solve that reaches the backend hands it timeout_sec as its
\* time limit.
C3_TimeoutPassed ==
  pc = "backend" => backendTimeLimit = timeout_sec

\* C4 (as claimed): in an Optimal solution the recorded flows into every
\* customer j sum to at least demand[j] - eps.
C4_DemandWithinEps ==
  OptimalExtracted =>
     \A j \in c_ids : RecordedInto(j) >= instance.demand[j] - Eps

\* C4 (amended): in an Optimal solution the recorded flows into every customer
\* j sum to at least demand[j] - k * eps, k being the number of positive flows
\* into j that the filter dropped.
C4_DemandWithinDroppedEps ==
  OptimalExtracted =>
     \A j \in c_ids :
        RecordedInto(j) >= instance.demand[j] - Eps * Cardinality(DroppedInto(j))

C4_Witness ==
  /\ OptimalExtracted
  /\ \E j \in c_ids : Cardinality(DroppedInto(j)) = 2

\* C5: in an Optimal solution the recorded flows out of every site i sum to
\* at most capacity[i] + eps, and to at most eps (that is, no flow is
\* recorded) when i is not recorded as opened.
C5_CapacityRespect ==
  OptimalExtracted =>
     \A i \in s_ids :
        /\ RecordedFrom(i) <= instance.capacity[i] + Eps
        /\ i \notin DOMAIN solution.ys => RecordedFrom(i) <= Eps

C5_Witness ==
  /\ OptimalExtracted
  /\ \E i \in s_ids : i \notin DOMAIN solution.ys /\ instance.capacity[i] > 0
  /\ \E i \in s_ids : RecordedFrom(i) = instance.capacity[i] /\ RecordedFrom(i) > 0

C7_EqualPointsShortCircuit ==
  (dres # NoDist /\ LocEqAsValue(dself, dother)) =>
     dres.path = "eq" /\ dres.km = 0 /\ dres.residue = 0

C9_OpenedRecordedAsOne ==
  pc = "extracted" =>
     /\ \A i \in s_ids :
          IF yValue[i] > Eps
          THEN i \in DOMAIN solution.ys /\ solution.ys[i] = One
          ELSE i \notin DOMAIN solution.ys
     /\ solution.fixed_costs =
          SumSites([i \in s_ids |-> IF i \in DOMAIN solution.ys
                               THEN instance.fixed_cost[i] * One ELSE 0])

\* C9 (amended): every site with open[i] > eps is recorded with the raw solver
\* value open[i], every other site is absent, and fixed_costs is the sum of
\* fixed_cost[i] * open[i] over the recorded sites.
C9_OpenedRecordedRaw ==
  pc = "extracted" =>
     /\ \A i \in s_ids :
          IF yValue[i] > Eps
          THEN i \in DOMAIN solution.ys /\ solution.ys[i] = yValue[i]
          ELSE i \notin DOMAIN solution.ys
     /\ solution.fixed_costs =
          SumSites([i \in s_ids |-> IF i \in DOMAIN solution.ys
                               THEN instance.fixed_cost[i] * yValue[i] ELSE 0])

C9_Witness ==
  /\ pc = "extracted"
  /\ \E i \in s_ids : i \in DOMAIN solution.ys /\ solution.ys[i] = One - Eps
                      /\ instance.fixed_cost[i] > 0
  /\ \E i \in s_ids : yValue[i] = Eps

\* C10: the model with the coefficient min(capacity[i], total_demand) and the
\* model with the coefficient capacity[i] are feasible for the same
\* instances, those with total demand <= total capacity, and have the same
\* minimum cost.
C10_TightenedEquivalent ==
  pc = "built" =>
     \A Ft \in {Feasible(LinkCaps)},
        Fr \in {Feasible([i \in s_ids |-> LinkCapUntightened(i)])} :
        /\ (Ft # {}) <=> (Fr # {})
        /\ (Ft # {}) <=> (total_demand <= total_capacity)
        /\ MinCost(Ft) = MinCost(Fr)

C10_Witness ==
  /\ pc = "built"
  /\ total_demand > 0
  /\ \E i \in s_ids : instance.capacity[i] > total_demand
  /\ Feasible(LinkCaps) # {}

====
